---- MODULE Spec2Model ----
(***************************************************************************)
(* Model of the duplex audio delivery pipeline of Kitt_extension:          *)
(* AudioProcessingService (double buffer, send, retry with backoff, stop), *)
(* VoiceActivityDetector (segmentation decisions) and AudioCaptureService  *)
(* (microphone and display capture).                                       *)
(*                                                                         *)
(* Three specifications share the variables: Spec runs the processing      *)
(* service (LiveSpec adds that every request settles), VadSpec one         *)
(* detector (VadPairSpec two detectors fed the same blocks) and            *)
(* CaptureSpec the capture service; each leaves the variables of the other *)
(* objects at their initial values.                                        *)
(*                                                                         *)
(* One asynchronous JavaScript service on a single event loop.  Every      *)
(* action below is one run-to-completion task of that loop: a public       *)
(* method call, one onaudioprocess event, the settling of one fetch() or   *)
(* the firing of one setTimeout() callback.                                *)
(*                                                                         *)
(* Audio frames are numbered 0, 1, 2, ... in the order the script          *)
(* processor delivers them; frame n stands for the n-th sample of each     *)
(* channel.  The voice activity detector is a separate object; here its    *)
(* verdict for a block (commercialDecision.shouldSend) is an input of the  *)
(* block handler.                                                          *)
(***************************************************************************)
EXTENDS Integers, Sequences, FiniteSets, TLC

\* ------------------------------------------------------------------ bounds
FramesPerSecond == 1    \* scaled sample rate: frames per modelled second
BlockFrames     == 6    \* scaled script processor block length
MaxBlocks       == 3    \* audio blocks delivered in one behaviour
MaxRequests     == 4    \* fetch() requests issued in one behaviour
MaxSessions     == 2    \* startProcessing() calls in one behaviour
ShortBlockMs    == 100  \* detector: duration of a short block, milliseconds
LongBlockMs     == 1000 \* detector: duration of a long block, milliseconds
StallBlocks     == 5    \* detector: longest gap between calls, in blocks
RmsQuiet        == 1    \* detector input: RMS 0.001, in thousandths
RmsLoud         == 50   \* detector input: RMS 0.050, in thousandths
MaxVadBlocks    == 8    \* analyze() calls of one detector in one behaviour
MaxPairBlocks   == 6    \* analyze() calls of each detector of a pair
MaxCaptureCalls == 3    \* startCapture() calls on one capture service

\* ------------------------------------------------------- program constants
SAMPLE_RATE              == FramesPerSecond
BUFFER_SIZE              == BlockFrames
SEND_INTERVAL_SECONDS    == 5
VAD_ENABLED              == TRUE
RETRY_ATTEMPTS           == 3
RETRY_DELAY              == 1000
RETRY_BACKOFF_MULTIPLIER == 2
MAX_BUFFER_SECONDS       == 10
MAX_BUFFER_SIZE          == SAMPLE_RATE * MAX_BUFFER_SECONDS
maxRetries               == RETRY_ATTEMPTS

\* VoiceActivityDetector: energies in thousandths, durations in milliseconds
SILENCE_THRESHOLD        == 5       \* 0.005
SPEECH_THRESHOLD         == 20      \* 0.02
MIN_SPEECH_DURATION      == 500     \* 0.5 s
SILENCE_BEFORE_SEND      == 1200    \* 1.2 s
NATURAL_PAUSE_THRESHOLD  == 800     \* 0.8 s
MIN_PHRASE_LENGTH        == 1000    \* 1.0 s
MAX_WAIT_TIME            == 6000    \* 6.0 s
SHORT_PHRASE_EXTENSION   == 1500    \* 1.5 s
historySize              == 5

\* --------------------------------------------------------------- helpers
null     == <<>>            \* a JavaScript null held in an object field
Ref(x)   == <<x>>           \* a non-null reference to the value x
Deref(r) == r[1]

NoSession == 0              \* sessionId === null / onDataCallback === null

EmptyPair == [client |-> <<>>, commercial |-> <<>>]

\* Math.pow(b, e) for a non-negative integer exponent
RECURSIVE Pow(_, _)
Pow(b, e) == IF e = 0 THEN 1 ELSE b * Pow(b, e - 1)

\* Math.round of the rational n / d (n, d > 0): halves round up
RoundDiv(n, d) == (2 * n + d) \div (2 * d)

\* the frames a .. b in order (empty when b < a)
FrameRange(a, b) == [i \in 1 .. (IF b < a THEN 0 ELSE b - a + 1) |-> a + i - 1]

\* Array.prototype.slice(-n) for n > 0: the last n elements
SliceLast(s, n) == IF Len(s) <= n THEN s ELSE SubSeq(s, Len(s) - n + 1, Len(s))

\* float32ToPCM16(new Float32Array(samples)): two bytes per sample, low byte
\* first (DataView.setInt16(i * 2, v, true)); a byte is <<sample, 0 | 1>>
float32ToPCM16(samples) ==
    [i \in 1 .. 2 * Len(samples) |-> <<samples[(i + 1) \div 2], (i + 1) % 2>>]

\* number of 16-bit samples in an encoded part
SampleCount(part) == Len(part) \div 2

\* the frames that an encoded part carries
PartFrames(part) == {part[i][1] : i \in 1 .. Len(part)}

VARIABLES
    audioContext,    \* TRUE iff this.audioContext is not null
    processor,       \* TRUE iff this.processor is not null
    audioBuffer,     \* active buffer pair
    sendingBuffer,   \* buffer pair being sent
    isProcessing,
    bufferThreshold,
    sessionId,       \* NoSession or the session token
    onDataCallback,  \* NoSession or the callback registered with the session
    isSending,       \* this._isSending
    retryCount,      \* this._retryCount
    failedBuffer,    \* this._failedBuffer: null or Ref(buffer pair)
    vadEnabled,
    requests,        \* fetch() requests that have not settled
    timers,          \* pending retry timers, in scheduling order
    nextFrame,       \* number of frames delivered so far
    nextReq,         \* number of requests issued so far
    epoch,           \* number of startProcessing() calls so far
    flushMark,       \* history: first frame appended after the latest swap/clear
    flushed,         \* history: a swap has happened since the latest start/stop
    submitted,       \* history: every request issued so far
    cbLog,           \* history: callback invocations
    lastEvent        \* history: what the latest task did

VARIABLES
    vad,             \* the fields of a VoiceActivityDetector
    vadNow,          \* Date.now() at its latest analyze() call, milliseconds
    blockMs,         \* bufferDuration of every block, milliseconds
    vadCalls,        \* number of analyze() calls so far
    vadResult,       \* history: decision returned by the latest analyze()
    vadSeen,         \* history: the fields that decision was taken on
    windowMs,        \* history: sum of block durations since the latest reset
    spokenInWindow,  \* history: a block since the latest reset was speech
    shape,           \* history: form of the input since the detector was fresh
    speechMs,        \* history: duration of the loud blocks of the utterance
    silenceMs,       \* history: duration of the quiet blocks that follow it
    realTime,        \* history: every call came one block duration after the last
    vad2,            \* a second detector, fed the same blocks
    vadNow2,         \* Date.now() at the second detector's latest call
    vadResult2       \* history: decision returned by the second detector

VARIABLES
    micStream,       \* AudioCaptureService.micStream: null or Ref(stream index)
    displayStream,   \* AudioCaptureService.displayStream
    isCapturing,
    calls,           \* the startCapture() calls made so far, and where each is
    streams,         \* every MediaStream the browser has handed to the service
    capEvent         \* history: what the latest task of the capture service did

svc == <<audioContext, processor, audioBuffer, sendingBuffer, isProcessing,
         bufferThreshold, sessionId, onDataCallback, isSending, retryCount,
         failedBuffer, vadEnabled>>

vars == <<audioContext, processor, audioBuffer, sendingBuffer, isProcessing,
          bufferThreshold, sessionId, onDataCallback, isSending, retryCount,
          failedBuffer, vadEnabled, requests, timers, nextFrame, nextReq,
          epoch, flushMark, flushed, submitted, cbLog, lastEvent,
          vad, vadNow, blockMs, vadCalls, vadResult, vadSeen, windowMs,
          spokenInWindow, shape, speechMs, silenceMs, realTime,
          vad2, vadNow2, vadResult2,
          micStream, displayStream, isCapturing, calls, streams, capEvent>>

det  == <<vad, vadNow, blockMs, vadCalls, vadResult, vadSeen, windowMs,
          spokenInWindow, shape, speechMs, silenceMs, realTime>>
det2 == <<vad2, vadNow2, vadResult2>>
cap  == <<micStream, displayStream, isCapturing, calls, streams, capEvent>>

Event(op, sent) == [op |-> op, sent |-> sent]

\* AudioProcessingService constructor()
ServiceInit ==
    /\ audioContext = FALSE
    /\ processor = FALSE
    /\ audioBuffer = EmptyPair
    /\ sendingBuffer = EmptyPair
    /\ isProcessing = FALSE
    /\ bufferThreshold = 0
    /\ sessionId = NoSession
    /\ onDataCallback = NoSession
    /\ isSending = FALSE
    /\ retryCount = 0
    /\ failedBuffer = null
    /\ vadEnabled = VAD_ENABLED
    /\ requests = {}
    /\ timers = <<>>
    /\ nextFrame = 0
    /\ nextReq = 0
    /\ epoch = 0
    /\ flushMark = 0
    /\ flushed = FALSE
    /\ submitted = {}
    /\ cbLog = <<>>
    /\ lastEvent = Event("init", FALSE)

\* ------------------------------------------------- VoiceActivityDetector parts

\* the fields set by the VoiceActivityDetector constructor (and by _reset())
NewDetector ==
    [isSpeaking           |-> FALSE,
     speechStartTime      |-> null,
     lastSpeechTime       |-> null,
     silenceDuration      |-> 0,
     speechDuration       |-> 0,
     totalAccumulatedTime |-> 0,
     energyHistory        |-> <<>>]

\* a decision object {shouldSend, reason}
Decision(shouldSend, reason) == [shouldSend |-> shouldSend, reason |-> reason]

NoDecision == Decision(FALSE, "none")

\* a detector that has not analysed any block
DetectorInit ==
    /\ vad = NewDetector
    /\ vadNow = 0
    /\ vadCalls = 0
    /\ vadResult = NoDecision
    /\ vadSeen = NewDetector
    /\ windowMs = 0
    /\ spokenInWindow = FALSE
    /\ shape = "fresh"
    /\ speechMs = 0
    /\ silenceMs = 0
    /\ realTime = TRUE
    /\ vad2 = NewDetector
    /\ vadNow2 = 0
    /\ vadResult2 = NoDecision

\* energyHistory.push(rms); if (length > historySize) energyHistory.shift()
PushEnergy(history, rms) ==
    IF Len(history) + 1 > historySize
    THEN Tail(Append(history, rms))
    ELSE Append(history, rms)

\* energyHistory.reduce((acc, val) => acc + val, 0)
RECURSIVE SumEnergy(_)
SumEnergy(history) ==
    IF history = <<>> THEN 0 ELSE Head(history) + SumEnergy(Tail(history))

\* smoothedRMS > SPEECH_THRESHOLD, with smoothedRMS = sum / length
IsSpeechNow(history) ==
    Len(history) > 0 /\ SumEnergy(history) > SPEECH_THRESHOLD * Len(history)

\* smoothedRMS < SILENCE_THRESHOLD
IsSilenceNow(history) ==
    Len(history) = 0 \/ SumEnergy(history) < SILENCE_THRESHOLD * Len(history)

\* analyze(), from the push of the block's energy to the end of the state
\* machine: rms is _calculateRMS(audioData), bufferDuration the duration of
\* the block and now the value of Date.now() during the call
UpdateState(v, rms, bufferDuration, now) ==
    LET history == PushEnergy(v.energyHistory, rms)
        v1 == [v EXCEPT !.energyHistory = history,
                        !.totalAccumulatedTime = @ + bufferDuration]
        onset == [v1 EXCEPT !.isSpeaking = TRUE,
                            !.speechStartTime = Ref(now),
                            !.silenceDuration = 0]
        v2 == IF v1.isSpeaking THEN v1 ELSE onset
    IN IF IsSpeechNow(history)
       THEN [v2 EXCEPT !.lastSpeechTime = Ref(now),
                       !.speechDuration = now - Deref(v2.speechStartTime)]
       ELSE IF IsSilenceNow(history) /\ v1.isSpeaking
       THEN [v1 EXCEPT !.silenceDuration = now - Deref(v1.lastSpeechTime)]
       ELSE v1

\* _shouldSendAudio(), CAS 3: enough silence after speech
SilenceAfterSpeechNoExtension(v) ==
    IF v.speechDuration < MIN_SPEECH_DURATION
    THEN Decision(FALSE, "speech_too_short")
    ELSE IF v.silenceDuration < NATURAL_PAUSE_THRESHOLD
    THEN Decision(FALSE, "natural_pause")
    ELSE IF v.speechDuration < MIN_PHRASE_LENGTH
    THEN Decision(FALSE, "short_phrase_waiting")
    ELSE Decision(TRUE, "end_of_speech")
SilenceAfterSpeech(v) ==
    IF v.speechDuration < MIN_SPEECH_DURATION
    THEN Decision(FALSE, "speech_too_short")
    ELSE IF v.silenceDuration < NATURAL_PAUSE_THRESHOLD
    THEN Decision(FALSE, "natural_pause")
    ELSE IF /\ v.speechDuration < MIN_PHRASE_LENGTH
            /\ v.speechDuration + v.silenceDuration
                   < MIN_PHRASE_LENGTH + SHORT_PHRASE_EXTENSION
    THEN Decision(FALSE, "short_phrase_waiting")
    ELSE Decision(TRUE, "end_of_speech")

\* _shouldSendAudio()
ShouldSendAudioOnAnySilence(v) ==
    IF ~v.isSpeaking /\ v.speechStartTime = null
    THEN IF v.totalAccumulatedTime >= MAX_WAIT_TIME
         THEN Decision(TRUE, "timeout_no_speech")
         ELSE Decision(FALSE, "waiting_for_speech")
    ELSE IF v.isSpeaking /\ v.silenceDuration = 0
    THEN IF v.totalAccumulatedTime >= MAX_WAIT_TIME
         THEN Decision(TRUE, "max_time_reached")
         ELSE Decision(FALSE, "speech_in_progress")
    ELSE IF v.silenceDuration > 0
    THEN SilenceAfterSpeech(v)
    ELSE Decision(FALSE, "waiting")
ShouldSendAudio(v) ==
    IF ~v.isSpeaking /\ v.speechStartTime = null
    THEN IF v.totalAccumulatedTime >= MAX_WAIT_TIME
         THEN Decision(TRUE, "timeout_no_speech")
         ELSE Decision(FALSE, "waiting_for_speech")
    ELSE IF v.isSpeaking /\ v.silenceDuration < SILENCE_BEFORE_SEND
    THEN IF v.totalAccumulatedTime >= MAX_WAIT_TIME
         THEN Decision(TRUE, "max_time_reached")
         ELSE Decision(FALSE, "speech_in_progress")
    ELSE IF v.silenceDuration >= SILENCE_BEFORE_SEND
    THEN SilenceAfterSpeech(v)
    ELSE Decision(FALSE, "waiting")

\* _reset()
ResetKeepsAccumulatedTime(v) ==
    [NewDetector EXCEPT !.totalAccumulatedTime = v.totalAccumulatedTime]
ResetKeepsLastSpeechTime(v) ==
    [NewDetector EXCEPT !.lastSpeechTime = v.lastSpeechTime]
Reset(v) == NewDetector

\* analyze(audioData, bufferDuration): the detector after the call, the
\* decision returned, and the fields the decision was taken on
Analyze(v, rms, bufferDuration, now) ==
    LET seen     == UpdateState(v, rms, bufferDuration, now)
        decision == ShouldSendAudio(seen)
    IN [state    |-> IF decision.shouldSend THEN Reset(seen) ELSE seen,
        decision |-> decision,
        seen     |-> seen]

\* --------------------------------------------------- AudioCaptureService parts

\* again: the task is a stopCapture() that follows another stopCapture()
CaptureEvent(op, call) == [op |-> op, call |-> call, again |-> FALSE]

\* AudioCaptureService constructor()
CaptureInit ==
    /\ micStream = null
    /\ displayStream = null
    /\ isCapturing = FALSE
    /\ calls = <<>>
    /\ streams = <<>>
    /\ capEvent = CaptureEvent("init", 0)

\* the MediaStream that getUserMedia(CAPTURE_CONSTRAINTS) resolves with for
\* call c: one audio track
MicrophoneStream(c) ==
    [kind |-> "mic", by |-> c, audioTracks |-> 1, videoTracks |-> 0,
     stopped |-> FALSE]

\* the MediaStream that getDisplayMedia(DISPLAY_CONSTRAINTS) resolves with:
\* a video track, and an audio track when the user shared the audio
DisplayStream(c, audioTracks) ==
    [kind |-> "display", by |-> c, audioTracks |-> audioTracks,
     videoTracks |-> 1, stopped |-> FALSE]

\* stream.getTracks().forEach(track => track.stop()) on the stream that the
\* field ref holds, if any
StopTracks(all, ref) ==
    IF ref = null THEN all
    ELSE [all EXCEPT ![Deref(ref)].stopped = TRUE]

\* the streams after stopCapture() has run with the given fields
StopCaptureStreams(all, mic, display) == StopTracks(StopTracks(all, mic), display)

\* _captureMicrophone(): the error thrown for a getUserMedia rejection
MicrophoneError(name) ==
    IF name \in {"NotAllowedError", "PermissionDeniedError"}
    THEN "MicrophonePermissionError"
    ELSE IF name = "NotFoundError" THEN "MicrophoneNotFoundError"
    ELSE "AudioCaptureError"

\* _captureDisplay(): the error thrown for a getDisplayMedia rejection
DisplayError(name) ==
    IF name \in {"NotAllowedError", "PermissionDeniedError"}
    THEN "ScreenCaptureError"
    ELSE "AudioCaptureError"

\* _validateAudioTracks(): does the display stream pass ?
ValidateAlwaysPasses(stream) == TRUE
ValidateAudioTracks(stream) == stream.audioTracks # 0

\* constructor()
Init ==
    /\ ServiceInit
    /\ DetectorInit
    /\ blockMs = ShortBlockMs
    /\ CaptureInit

\* ------------------------------------------------- _processAudioBuffer parts

\* event.inputBuffer.getChannelData(c): the next BUFFER_SIZE frames
ChannelData(first) == FrameRange(first, first + BUFFER_SIZE - 1)

\* this.audioBuffer.client.push(...channel1); commercial.push(...channel2)
AppendBlockUnlessSending(buf, channel1, channel2) ==
    IF isSending THEN buf
    ELSE [client |-> buf.client \o channel1, commercial |-> buf.commercial \o channel2]
AppendBlock(buf, channel1, channel2) ==
    [client |-> buf.client \o channel1, commercial |-> buf.commercial \o channel2]

\* overflow protection: keep the last MAX_BUFFER_SIZE samples of both channels
EvictClientOnly(buf) ==
    IF Len(buf.client) > MAX_BUFFER_SIZE
    THEN [client     |-> SliceLast(buf.client, MAX_BUFFER_SIZE),
          commercial |-> buf.commercial]
    ELSE buf
EvictKeepsOldest(buf) ==
    IF Len(buf.client) > MAX_BUFFER_SIZE
    THEN [client     |-> SubSeq(buf.client, 1, MAX_BUFFER_SIZE),
          commercial |-> SubSeq(buf.commercial, 1, MAX_BUFFER_SIZE)]
    ELSE buf
Evict(buf) ==
    IF Len(buf.client) > MAX_BUFFER_SIZE
    THEN [client     |-> SliceLast(buf.client, MAX_BUFFER_SIZE),
          commercial |-> SliceLast(buf.commercial, MAX_BUFFER_SIZE)]
    ELSE buf

\* VAD mode: commercialDecision.shouldSend && !_isSending && length > 0
VadTrigger(shouldSend, buf) ==
    shouldSend /\ ~isSending /\ Len(buf.client) > 0

\* legacy mode: length >= bufferThreshold && !_isSending
LegacyTrigger(buf) ==
    Len(buf.client) >= bufferThreshold /\ ~isSending

\* does the block handler call _sendAudioToBackend() ?
SendDecision(shouldSend, buf) ==
    IF vadEnabled THEN VadTrigger(shouldSend, buf) ELSE LegacyTrigger(buf)

\* ------------------------------------------------- _sendAudioToBackend parts

\* the FormData posted to AUDIO_UPLOAD(this.sessionId), built from the buffer
\* pair that the swap installed as sendingBuffer.  The other fields are
\* history: seg is the segment the request stands for, attempt its retry
\* ordinal, cause what issued it ("decision" of the block handler, or the
\* cause of the retry timer) and retryOf, for a request issued by a retry
\* timer, the body of the request whose catch block set the timer.
NewRequest(snapshot, seg, attempt, retryOf, cause) ==
    [id               |-> nextReq + 1,
     cause            |-> cause,
     sessionId        |-> sessionId,
     client_audio     |-> float32ToPCM16(snapshot.client),
     commercial_audio |-> float32ToPCM16(snapshot.commercial),
     seg              |-> seg,
     attempt          |-> attempt,
     retryOf          |-> retryOf]

\* history record of an issued request: the frames its two parts carry
Submission(r) ==
    [id |-> r.id, session |-> r.sessionId, seg |-> r.seg,
     frames |-> PartFrames(r.client_audio) \cup PartFrames(r.commercial_audio)]

\* SWAP: the active pair becomes the sending pair and a new empty pair is
\* installed as the active pair
SwapOutKeepsActive(active) == [sending |-> active, active |-> active]
SwapOutLeavesLastFrame(active) ==
    [sending |-> active,
     active  |-> [client     |-> SliceLast(active.client, 1),
                  commercial |-> SliceLast(active.commercial, 1)]]
SwapOut(active) == [sending |-> active, active |-> EmptyPair]

\* the synchronous part of _sendAudioToBackend(), up to await fetch():
\* active is this.audioBuffer and pending is this.sendingBuffer on entry,
\* mark is the number of frames delivered so far.
SendAudioToBackend(active, pending, seg, attempt, retryOf, cause, mark) ==
    IF isSending
    THEN \* "Envoi deja en cours, skip"
         /\ audioBuffer' = active
         /\ sendingBuffer' = pending
         /\ UNCHANGED <<isSending, requests, nextReq, flushMark, flushed, submitted>>
    ELSE /\ isSending' = TRUE
         /\ sendingBuffer' = SwapOut(active).sending
         /\ audioBuffer' = SwapOut(active).active
         /\ requests' = requests \cup
                {NewRequest(SwapOut(active).sending, seg, attempt, retryOf, cause)}
         /\ nextReq' = nextReq + 1
         /\ flushMark' = mark
         /\ flushed' = TRUE
         /\ submitted' = submitted \cup
                {Submission(NewRequest(SwapOut(active).sending, seg, attempt, retryOf, cause))}

\* API_CONFIG.RETRY_DELAY * Math.pow(RETRY_BACKOFF_MULTIPLIER, _retryCount - 1)
RetryDelay(count) == RETRY_DELAY * Pow(RETRY_BACKOFF_MULTIPLIER, count - 1)

\* the timer set by the catch block for request r; cause is "send_failed"
\* when the request failed and "callback_threw" when the callback raised
RetryTimer(r, count, cause) ==
    [delay   |-> RetryDelay(count),
     cause   |-> cause,
     seg     |-> r.seg,
     k       |-> r.attempt + 1,
     session |-> r.sessionId,
     failed  |-> [client_audio |-> r.client_audio,
                  commercial_audio |-> r.commercial_audio]]

\* if (this.onDataCallback) this.onDataCallback(payload)
Invoke(log, kind, r) ==
    IF onDataCallback # NoSession
    THEN Append(log, [cb |-> onDataCallback, kind |-> kind, req |-> r.id, seg |-> r.seg])
    ELSE log

\* may a retry be attempted ?  (this._retryCount < this._maxRetries)
CanRetry(count) == count < maxRetries

\* catch (error) { ... } finally { ... } for request r, entered with
\* _retryCount = count and the callback history log
CatchErrorKeepsSendingFlag(r, count, log, cause) ==
    IF CanRetry(count)
    THEN /\ failedBuffer' = Ref(sendingBuffer)
         /\ retryCount' = count + 1
         /\ isSending' = FALSE
         /\ timers' = Append(timers, RetryTimer(r, count + 1, cause))
         /\ cbLog' = log
         /\ UNCHANGED sendingBuffer
    ELSE /\ retryCount' = 0
         /\ failedBuffer' = null
         /\ cbLog' = Invoke(log, "error", r)
         /\ sendingBuffer' = EmptyPair
         /\ UNCHANGED <<isSending, timers>>
CatchErrorRetryKeepsSendingFlag(r, count, log, cause) ==
    IF CanRetry(count)
    THEN /\ failedBuffer' = Ref(sendingBuffer)
         /\ retryCount' = count + 1
         /\ timers' = Append(timers, RetryTimer(r, count + 1, cause))
         /\ cbLog' = log
         /\ UNCHANGED <<sendingBuffer, isSending>>
    ELSE /\ retryCount' = 0
         /\ failedBuffer' = null
         /\ cbLog' = Invoke(log, "error", r)
         /\ sendingBuffer' = EmptyPair
         /\ isSending' = FALSE
         /\ UNCHANGED timers
CatchError(r, count, log, cause) ==
    IF CanRetry(count)
    THEN /\ failedBuffer' = Ref(sendingBuffer)
         /\ retryCount' = count + 1
         /\ isSending' = FALSE
         /\ timers' = Append(timers, RetryTimer(r, count + 1, cause))
         /\ cbLog' = log
         /\ UNCHANGED sendingBuffer       \* finally: _retryCount !== 0
    ELSE /\ retryCount' = 0
         /\ failedBuffer' = null
         /\ cbLog' = Invoke(log, "error", r)
         /\ sendingBuffer' = EmptyPair    \* finally: _retryCount === 0
         /\ isSending' = FALSE
         /\ UNCHANGED timers

\* the guard inside the setTimeout callback
RetryTimerGuardNoStopCheck == failedBuffer # null
RetryTimerGuard == failedBuffer # null /\ isProcessing

\* a timer fires no later than one that was set after it with an equal or
\* longer delay
CanFire(i) == \A j \in 1 .. (i - 1) : timers[j].delay > timers[i].delay

RemoveAt(s, i) == SubSeq(s, 1, i - 1) \o SubSeq(s, i + 1, Len(s))

\* ------------------------------------------------------------------ actions

\* startProcessing(micStream, displayStream, sessionId, onDataCallback):
\* cb is NoSession for a missing callback, ctxOk is FALSE when building the
\* audio graph throws
StartProcessing(cb, ctxOk) ==
    /\ epoch < MaxSessions
    /\ cb \in {NoSession, epoch + 1}
    /\ IF isProcessing
       THEN /\ UNCHANGED <<svc, epoch, flushMark, flushed>>
            /\ lastEvent' = Event("start_ignored", FALSE)
       ELSE /\ epoch' = epoch + 1
            /\ IF cb = NoSession
               THEN \* throws after storing the session id and the callback
                    /\ sessionId' = epoch + 1
                    /\ onDataCallback' = NoSession
                    /\ UNCHANGED <<audioContext, processor, audioBuffer,
                                   sendingBuffer, isProcessing, bufferThreshold,
                                   isSending, flushMark, flushed>>
                    /\ lastEvent' = Event("start_failed", FALSE)
               ELSE IF ~ctxOk
               THEN \* catch: this.stopProcessing(); throw error
                    /\ sessionId' = NoSession
                    /\ onDataCallback' = NoSession
                    /\ isProcessing' = FALSE
                    /\ audioContext' = FALSE
                    /\ processor' = FALSE
                    /\ audioBuffer' = EmptyPair
                    /\ sendingBuffer' = EmptyPair
                    /\ isSending' = FALSE
                    /\ flushMark' = nextFrame
                    /\ flushed' = FALSE
                    /\ UNCHANGED bufferThreshold
                    /\ lastEvent' = Event("start_failed", FALSE)
               ELSE /\ sessionId' = epoch + 1
                    /\ onDataCallback' = cb
                    /\ audioContext' = TRUE
                    /\ processor' = TRUE
                    /\ bufferThreshold' = RoundDiv(SAMPLE_RATE * SEND_INTERVAL_SECONDS, 1)
                    /\ isProcessing' = TRUE
                    /\ UNCHANGED <<audioBuffer, sendingBuffer, isSending, flushMark>>
                    /\ flushed' = FALSE
                    /\ lastEvent' = Event("start", FALSE)
            /\ UNCHANGED <<retryCount, failedBuffer, vadEnabled>>
    /\ UNCHANGED <<requests, timers, nextFrame, nextReq, submitted, cbLog>>
    /\ UNCHANGED <<det, det2, cap>>

\* _processAudioBuffer(event): one onaudioprocess event; shouldSend is the
\* detector's verdict for the block
ProcessAudioBuffer(shouldSend) ==
    /\ nextFrame + BUFFER_SIZE <= MaxBlocks * BUFFER_SIZE
    /\ isProcessing /\ audioContext /\ processor   \* otherwise: skip buffer
    /\ LET channel1 == ChannelData(nextFrame)
           channel2 == ChannelData(nextFrame)
           buf      == Evict(AppendBlock(audioBuffer, channel1, channel2))
           send     == SendDecision(shouldSend, buf)
       IN /\ nextFrame' = nextFrame + BUFFER_SIZE
          /\ IF send
             THEN /\ nextReq < MaxRequests
                  /\ SendAudioToBackend(buf, sendingBuffer, nextReq + 1, 0, null,
                                        "decision", nextFrame + BUFFER_SIZE)
             ELSE /\ audioBuffer' = buf
                  /\ UNCHANGED <<sendingBuffer, isSending, requests, nextReq,
                                 flushMark, flushed, submitted>>
          /\ lastEvent' = Event("block", send)
    /\ UNCHANGED <<audioContext, processor, isProcessing, bufferThreshold,
                   sessionId, onDataCallback, retryCount, failedBuffer,
                   vadEnabled, timers, epoch, cbLog>>
    /\ UNCHANGED <<det, det2, cap>>

\* fetch() resolves with an ok response and response.json() resolves;
\* cbThrows: the callback raises an exception
RequestSucceeds(r, cbThrows) ==
    /\ r \in requests
    /\ requests' = requests \ {r}
    /\ IF cbThrows /\ onDataCallback # NoSession
       THEN CatchError(r, 0, Invoke(cbLog, "data", r), "callback_threw")
       ELSE /\ retryCount' = 0
            /\ failedBuffer' = null
            /\ cbLog' = Invoke(cbLog, "data", r)
            /\ sendingBuffer' = EmptyPair      \* finally: _retryCount === 0
            /\ isSending' = FALSE
            /\ UNCHANGED timers
    /\ lastEvent' = Event("succeed", FALSE)
    /\ UNCHANGED <<audioContext, processor, audioBuffer, isProcessing,
                   bufferThreshold, sessionId, onDataCallback, vadEnabled,
                   nextFrame, nextReq, epoch, flushMark, flushed, submitted>>
    /\ UNCHANGED <<det, det2, cap>>

\* fetch() rejects (abort after REQUEST_TIMEOUT, network error), the response
\* is not ok, or response.json() rejects
RequestFails(r) ==
    /\ r \in requests
    /\ requests' = requests \ {r}
    /\ CatchError(r, retryCount, cbLog, "send_failed")
    /\ lastEvent' = Event("fail", FALSE)
    /\ UNCHANGED <<audioContext, processor, audioBuffer, isProcessing,
                   bufferThreshold, sessionId, onDataCallback, vadEnabled,
                   nextFrame, nextReq, epoch, flushMark, flushed, submitted>>
    /\ UNCHANGED <<det, det2, cap>>

\* the setTimeout callback of the i-th pending retry timer runs
TimerFires(i) ==
    /\ i \in 1 .. Len(timers)
    /\ CanFire(i)
    /\ timers' = RemoveAt(timers, i)
    /\ IF RetryTimerGuard
       THEN /\ ~isSending => nextReq < MaxRequests
            /\ SendAudioToBackend(audioBuffer, Deref(failedBuffer), timers[i].seg,
                                  timers[i].k, Ref(timers[i].failed),
                                  timers[i].cause, nextFrame)
            /\ lastEvent' = Event("timer", ~isSending)
       ELSE /\ UNCHANGED <<audioBuffer, sendingBuffer, isSending, requests,
                           nextReq, flushMark, flushed, submitted>>
            /\ lastEvent' = Event("timer", FALSE)
    /\ UNCHANGED <<audioContext, processor, isProcessing, bufferThreshold,
                   sessionId, onDataCallback, retryCount, failedBuffer,
                   vadEnabled, nextFrame, epoch, cbLog>>
    /\ UNCHANGED <<det, det2, cap>>

\* stopProcessing()
StopProcessingKeepsSendingBuffer ==
    /\ isProcessing' = FALSE
    /\ processor' = FALSE
    /\ audioContext' = FALSE
    /\ audioBuffer' = EmptyPair
    /\ isSending' = FALSE
    /\ sessionId' = NoSession
    /\ onDataCallback' = NoSession
    /\ flushMark' = nextFrame
    /\ flushed' = FALSE
    /\ lastEvent' = Event("stop", FALSE)
    /\ UNCHANGED <<sendingBuffer, bufferThreshold, retryCount, failedBuffer,
                   vadEnabled, requests, timers, nextFrame, nextReq, epoch,
                   submitted, cbLog>>
    /\ UNCHANGED <<det, det2, cap>>
StopProcessing ==
    /\ isProcessing' = FALSE
    /\ processor' = FALSE
    /\ audioContext' = FALSE
    /\ audioBuffer' = EmptyPair
    /\ sendingBuffer' = EmptyPair
    /\ isSending' = FALSE
    /\ sessionId' = NoSession
    /\ onDataCallback' = NoSession
    /\ flushMark' = nextFrame
    /\ flushed' = FALSE
    /\ lastEvent' = Event("stop", FALSE)
    /\ UNCHANGED <<bufferThreshold, retryCount, failedBuffer, vadEnabled,
                   requests, timers, nextFrame, nextReq, epoch, submitted, cbLog>>
    /\ UNCHANGED <<det, det2, cap>>

\* setVADEnabled(enabled)
SetVADEnabled(enabled) ==
    /\ vadEnabled' = enabled
    /\ lastEvent' = Event("setvad", FALSE)
    /\ UNCHANGED <<audioContext, processor, audioBuffer, sendingBuffer,
                   isProcessing, bufferThreshold, sessionId, onDataCallback,
                   isSending, retryCount, failedBuffer, requests, timers,
                   nextFrame, nextReq, epoch, flushMark, flushed, submitted,
                   cbLog>>
    /\ UNCHANGED <<det, det2, cap>>

Next ==
    \/ \E cb \in 0 .. MaxSessions, ctxOk \in BOOLEAN : StartProcessing(cb, ctxOk)
    \/ \E shouldSend \in BOOLEAN : ProcessAudioBuffer(shouldSend)
    \/ \E r \in requests : RequestFails(r)
    \/ \E r \in requests, cbThrows \in BOOLEAN : RequestSucceeds(r, cbThrows)
    \/ \E i \in 1 .. Len(timers) : TimerFires(i)
    \/ StopProcessing
    \/ \E enabled \in BOOLEAN : SetVADEnabled(enabled)

Spec == Init /\ [][Next]_vars

\* an outstanding fetch() settles: it resolves, rejects, or is aborted by the
\* REQUEST_TIMEOUT timer of its AbortController
Settle ==
    \E r \in requests :
        \/ RequestFails(r)
        \/ \E cbThrows \in BOOLEAN : RequestSucceeds(r, cbThrows)

\* the processing service with every request settling eventually
LiveSpec == Init /\ [][Next]_vars /\ WF_vars(Settle)

\* ------------------------------------------- VoiceActivityDetector actions

\* every variable of the processing service
pipeline == <<svc, requests, timers, nextFrame, nextReq, epoch, flushMark,
              flushed, submitted, cbLog, lastEvent>>

\* inputs of analyze(): the RMS of the block, and the time that Date.now()
\* has advanced since the previous call (nothing, one block duration, or a
\* stall of several block durations)
RmsValues      == {RmsQuiet, RmsLoud}
BlockDurations == {ShortBlockMs, LongBlockMs}
ClockSteps     == {0, blockMs, StallBlocks * blockMs}
PairClockSteps == {blockMs, StallBlocks * blockMs}

\* history: the form of the blocks fed to a fresh detector, "speech" while
\* they are all loud, "silence" once quiet blocks follow the loud ones
NextShape(rms) ==
    IF rms = RmsLoud /\ shape \in {"fresh", "speech"} THEN "speech"
    ELSE IF rms = RmsQuiet /\ shape \in {"speech", "silence"} THEN "silence"
    ELSE "other"

\* one analyze(audioData, bufferDuration) call on the detector
AnalyzeStep(rms, dt) ==
    /\ vadCalls < MaxVadBlocks
    /\ LET now == vadNow + dt
           a   == Analyze(vad, rms, blockMs, now)
       IN /\ vad' = a.state
          /\ vadNow' = now
          /\ vadResult' = a.decision
          /\ vadSeen' = a.seen
          /\ windowMs' = IF a.decision.shouldSend THEN 0 ELSE windowMs + blockMs
          /\ spokenInWindow' =
                IF a.decision.shouldSend THEN FALSE
                ELSE spokenInWindow \/ IsSpeechNow(a.seen.energyHistory)
    /\ vadCalls' = vadCalls + 1
    /\ shape' = NextShape(rms)
    /\ speechMs' = IF NextShape(rms) = "speech" THEN speechMs + blockMs ELSE speechMs
    /\ silenceMs' = IF NextShape(rms) = "silence" THEN silenceMs + blockMs ELSE silenceMs
    /\ realTime' = (realTime /\ dt = blockMs)
    /\ UNCHANGED blockMs

\* hardReset() on the detector
HardResetStep ==
    /\ vad' = Reset(vad)
    /\ vadResult' = NoDecision
    /\ vadSeen' = NewDetector
    /\ windowMs' = 0
    /\ spokenInWindow' = FALSE
    /\ shape' = "fresh"
    /\ speechMs' = 0
    /\ silenceMs' = 0
    /\ realTime' = TRUE
    /\ UNCHANGED <<vadNow, blockMs, vadCalls>>

VadAnalyze(rms, dt) ==
    /\ AnalyzeStep(rms, dt)
    /\ UNCHANGED <<det2, pipeline, cap>>

VadHardReset ==
    /\ HardResetStep
    /\ UNCHANGED <<det2, pipeline, cap>>

\* the same block is analysed by both detectors, each reading its own clock
PairAnalyze(rms, dt, dt2) ==
    /\ vadCalls < MaxPairBlocks
    /\ AnalyzeStep(rms, dt)
    /\ LET a2 == Analyze(vad2, rms, blockMs, vadNow2 + dt2)
       IN /\ vad2' = a2.state
          /\ vadNow2' = vadNow2 + dt2
          /\ vadResult2' = a2.decision
    /\ UNCHANGED <<pipeline, cap>>

\* hardReset() on both detectors
PairHardReset ==
    /\ HardResetStep
    /\ vad2' = Reset(vad2)
    /\ vadResult2' = NoDecision
    /\ UNCHANGED <<vadNow2, pipeline, cap>>

\* the block duration is BUFFER_SIZE / SAMPLE_RATE, the same for every block
VadInit ==
    /\ ServiceInit
    /\ DetectorInit
    /\ blockMs \in BlockDurations
    /\ CaptureInit

VadNext ==
    \/ \E rms \in RmsValues, dt \in ClockSteps : VadAnalyze(rms, dt)
    \/ VadHardReset

VadSpec == VadInit /\ [][VadNext]_vars

PairNext ==
    \/ \E rms \in RmsValues, dt \in PairClockSteps, dt2 \in PairClockSteps :
          PairAnalyze(rms, dt, dt2)
    \/ PairHardReset

VadPairSpec == VadInit /\ [][PairNext]_vars

\* --------------------------------------------- AudioCaptureService actions
\* A startCapture() call runs in three tasks: the call itself, up to the
\* await of getUserMedia(); the settling of getUserMedia(), up to the await
\* of getDisplayMedia(); and the settling of getDisplayMedia(), to the end.

\* the names a rejected media request can carry
RejectionNames == {"NotAllowedError", "PermissionDeniedError", "NotFoundError",
                   "AbortError"}

Finish(c, result) == [calls EXCEPT ![c] = [pc |-> "done", result |-> result]]

\* catch (error) { this.stopCapture(); throw error; }
FailCapture(c, error, all) ==
    /\ streams' = StopCaptureStreams(all, micStream, displayStream)
    /\ micStream' = null
    /\ displayStream' = null
    /\ isCapturing' = FALSE
    /\ calls' = Finish(c, error)

\* startCapture() is called: getUserMedia() is requested
StartCapture ==
    /\ Len(calls) < MaxCaptureCalls
    /\ calls' = Append(calls, [pc |-> "mic", result |-> "pending"])
    /\ capEvent' = CaptureEvent("start", Len(calls) + 1)
    /\ UNCHANGED <<micStream, displayStream, isCapturing, streams>>
    /\ UNCHANGED <<pipeline, det, det2>>

\* getUserMedia() of call c resolves: the stream is stored and
\* getDisplayMedia() is requested
MicrophoneResolves(c) ==
    /\ c \in 1 .. Len(calls)
    /\ calls[c].pc = "mic"
    /\ streams' = Append(streams, MicrophoneStream(c))
    /\ micStream' = Ref(Len(streams) + 1)
    /\ calls' = [calls EXCEPT ![c].pc = "display"]
    /\ capEvent' = CaptureEvent("mic_resolved", c)
    /\ UNCHANGED <<displayStream, isCapturing>>
    /\ UNCHANGED <<pipeline, det, det2>>

\* getUserMedia() of call c rejects with an error of the given name
MicrophoneRejects(c, name) ==
    /\ c \in 1 .. Len(calls)
    /\ calls[c].pc = "mic"
    /\ FailCapture(c, MicrophoneError(name), streams)
    /\ capEvent' = CaptureEvent("mic_rejected", c)
    /\ UNCHANGED <<pipeline, det, det2>>

\* getDisplayMedia() of call c resolves with a stream of audioTracks audio
\* tracks: the stream is stored and validated
DisplayResolves(c, audioTracks) ==
    /\ c \in 1 .. Len(calls)
    /\ calls[c].pc = "display"
    /\ LET stream == DisplayStream(c, audioTracks)
           all    == Append(streams, stream)
       IN IF ValidateAudioTracks(stream)
          THEN /\ streams' = all
               /\ displayStream' = Ref(Len(all))
               /\ isCapturing' = TRUE
               /\ calls' = Finish(c, "ok")
               /\ UNCHANGED micStream
          ELSE /\ streams' = StopCaptureStreams(all, micStream, Ref(Len(all)))
               /\ micStream' = null
               /\ displayStream' = null
               /\ isCapturing' = FALSE
               /\ calls' = Finish(c, "NoAudioTrackError")
    /\ capEvent' = CaptureEvent("display_resolved", c)
    /\ UNCHANGED <<pipeline, det, det2>>

\* getDisplayMedia() of call c rejects with an error of the given name
DisplayRejects(c, name) ==
    /\ c \in 1 .. Len(calls)
    /\ calls[c].pc = "display"
    /\ FailCapture(c, DisplayError(name), streams)
    /\ capEvent' = CaptureEvent("display_rejected", c)
    /\ UNCHANGED <<pipeline, det, det2>>

\* stopCapture()
StopCaptureKeepsCapturingFlag ==
    /\ streams' = StopCaptureStreams(streams, micStream, displayStream)
    /\ micStream' = null
    /\ displayStream' = null
    /\ capEvent' = [CaptureEvent("stop", 0) EXCEPT !.again = capEvent.op = "stop"]
    /\ UNCHANGED <<isCapturing, calls>>
    /\ UNCHANGED <<pipeline, det, det2>>
StopCapture ==
    /\ streams' = StopCaptureStreams(streams, micStream, displayStream)
    /\ micStream' = null
    /\ displayStream' = null
    /\ isCapturing' = FALSE
    /\ capEvent' = [CaptureEvent("stop", 0) EXCEPT !.again = capEvent.op = "stop"]
    /\ UNCHANGED calls
    /\ UNCHANGED <<pipeline, det, det2>>

CaptureNext ==
    \/ StartCapture
    \/ \E c \in 1 .. Len(calls) : MicrophoneResolves(c)
    \/ \E c \in 1 .. Len(calls), name \in RejectionNames : MicrophoneRejects(c, name)
    \/ \E c \in 1 .. Len(calls), audioTracks \in 0 .. 1 : DisplayResolves(c, audioTracks)
    \/ \E c \in 1 .. Len(calls), name \in RejectionNames : DisplayRejects(c, name)
    \/ StopCapture

CaptureSpec == Init /\ [][CaptureNext]_vars

\* =============================================================== properties

\* the requests issued by the step
NewRequests == requests' \ requests

Max2(a, b) == IF a >= b THEN a ELSE b

\* --------------------------------------------------------------------- C1
\* C1: the request issued by a retry carries exactly the samples of the
\* failed request (the pair swapped out at the original flush), not samples
\* appended to the active buffer after that flush.
C1_RetryCarriesFailedSnapshot ==
    \A r \in requests :
        r.cause = "send_failed" =>
            /\ r.client_audio = Deref(r.retryOf).client_audio
            /\ r.commercial_audio = Deref(r.retryOf).commercial_audio

\* --------------------------------------------------------------------- C2
OneOutstandingPerSession(reqs) ==
    \A r1, r2 \in reqs : r1.sessionId = r2.sessionId => r1 = r2

\* C2: at most one request of a session is outstanding at any time, and a
\* block handled while a request of the session is outstanding starts no send,
\* leaves the in-flight snapshot untouched and keeps the block's frames in the
\* active buffer.
C2_SingleOutstandingRequest ==
    [][ /\ OneOutstandingPerSession(requests')
        /\ (lastEvent'.op = "block" /\ \E r \in requests : r.sessionId = sessionId) =>
              /\ nextReq' = nextReq
              /\ sendingBuffer' = sendingBuffer
              /\ \A f \in nextFrame .. (nextFrame' - 1) :
                    \E i \in 1 .. Len(audioBuffer'.client) : audioBuffer'.client[i] = f
      ]_vars

\* --------------------------------------------------------------------- C3
\* a failed segment of the running session waits for its scheduled retry
RetryPending ==
    /\ isProcessing
    /\ failedBuffer # null
    /\ \E i \in 1 .. Len(timers) :
          timers[i].session = sessionId /\ timers[i].cause = "send_failed"

\* the step runs the callback of a retry timer of the running session
RetryTimerOfSessionFires ==
    /\ lastEvent'.op = "timer"
    /\ \E i \in 1 .. Len(timers) :
          /\ timers' = RemoveAt(timers, i)
          /\ timers[i].session = sessionId
          /\ timers[i].cause = "send_failed"

\* C3: while a failed segment waits for its retry, a block's send decision
\* starts no send of newer samples, and the retry, when its timer fires, is
\* not skipped.
C3_RetryInPlace ==
    [][ /\ (RetryPending /\ lastEvent'.op = "block") => nextReq' = nextReq
        /\ (RetryPending /\ RetryTimerOfSessionFires) => nextReq' = nextReq + 1
      ]_vars

\* --------------------------------------------------------------------- C4
\* C4 as stated: once a flush has happened in the running session, every
\* frame appended since the latest flush is still in the active buffer (none
\* dropped), the next flush takes all of them, and no frame appended after a
\* flush is in a request of that flush.
C4_NoLossAsStated ==
    [][ /\ (isProcessing' /\ flushed') =>
              /\ audioBuffer'.client = FrameRange(flushMark', nextFrame' - 1)
              /\ audioBuffer'.commercial = FrameRange(flushMark', nextFrame' - 1)
        /\ \A r \in NewRequests :
              flushed =>
              /\ r.client_audio = float32ToPCM16(FrameRange(flushMark, nextFrame' - 1))
              /\ r.commercial_audio = float32ToPCM16(FrameRange(flushMark, nextFrame' - 1))
        /\ \A r \in requests' :
              \A f \in PartFrames(r.client_audio) \cup PartFrames(r.commercial_audio) :
                  f < flushMark'
      ]_vars

\* the frames appended since the latest flush that overflow eviction has kept
KeptSinceFlush(mark, next) ==
    FrameRange(Max2(mark, next - MAX_BUFFER_SIZE), next - 1)

\* C4 amended: no frame appended after a flush is in a request of that flush,
\* and the frames appended since the latest flush, except those removed by the
\* overflow eviction, are all in the active buffer, in order, and are all
\* taken by the next flush.
C4_NoLossUpToEviction ==
    [][ /\ isProcessing' =>
              /\ audioBuffer'.client = KeptSinceFlush(flushMark', nextFrame')
              /\ audioBuffer'.commercial = KeptSinceFlush(flushMark', nextFrame')
        /\ \A r \in NewRequests :
              /\ r.client_audio = float32ToPCM16(KeptSinceFlush(flushMark, nextFrame'))
              /\ r.commercial_audio = float32ToPCM16(KeptSinceFlush(flushMark, nextFrame'))
        /\ \A r \in requests' :
              \A f \in PartFrames(r.client_audio) \cup PartFrames(r.commercial_audio) :
                  f < flushMark'
      ]_vars

\* a second segment was flushed with a full buffer: frames appended after the
\* first flush were evicted and the rest went into the next segment
C4_FlushAfterEviction ==
    /\ isProcessing
    /\ lastEvent.sent
    /\ \E r \in requests :
          /\ r.id >= 2
          /\ SampleCount(r.client_audio) = MAX_BUFFER_SIZE
          /\ r.client_audio[1][1] > 0

\* --------------------------------------------------------------------- C5
\* C5: the two channels of the active buffer have the same length, and the
\* client_audio and commercial_audio parts of every request carry the same
\* number of samples.
C5_ChannelsInLockStep ==
    /\ Len(audioBuffer.client) = Len(audioBuffer.commercial)
    /\ \A r \in requests :
          /\ SampleCount(r.client_audio) = SampleCount(r.commercial_audio)
          /\ Len(r.client_audio) = Len(r.commercial_audio)

\* a retry request that carries a full, evicted buffer is outstanding while
\* the active buffer is filling again
C5_RetryOfEvictedBuffer ==
    \E r \in requests :
        /\ r.cause = "send_failed"
        /\ SampleCount(r.client_audio) = MAX_BUFFER_SIZE
        /\ SampleCount(r.commercial_audio) = MAX_BUFFER_SIZE

\* --------------------------------------------------------------------- C6
\* the pair that holds the block's frames after the handler has run
AfterBlock == IF lastEvent'.sent THEN sendingBuffer' ELSE audioBuffer'

\* C6: after every processed block each channel holds at most
\* MAX_BUFFER_SIZE samples, and when the append exceeded the bound exactly the
\* most recent MAX_BUFFER_SIZE frames remain, in their original order.
C6_BufferBounded ==
    [][ lastEvent'.op = "block" =>
          /\ Len(audioBuffer'.client) <= MAX_BUFFER_SIZE
          /\ Len(audioBuffer'.commercial) <= MAX_BUFFER_SIZE
          /\ Len(AfterBlock.client) <= MAX_BUFFER_SIZE
          /\ Len(AfterBlock.commercial) <= MAX_BUFFER_SIZE
          /\ Len(audioBuffer.client) + BUFFER_SIZE > MAX_BUFFER_SIZE =>
                /\ AfterBlock.client =
                      FrameRange(nextFrame' - MAX_BUFFER_SIZE, nextFrame' - 1)
                /\ AfterBlock.commercial =
                      FrameRange(nextFrame' - MAX_BUFFER_SIZE, nextFrame' - 1)
      ]_vars

\* a block has just overflowed the active buffer: it is full and its oldest
\* frames since the latest flush are gone
C6_EvictionHappened ==
    /\ lastEvent.op = "block"
    /\ ~lastEvent.sent
    /\ Len(audioBuffer.client) = MAX_BUFFER_SIZE
    /\ audioBuffer.client[1] > flushMark

\* --------------------------------------------------------------------- C7
\* C7: the k-th retry of a segment (k = 1 .. maxRetries) is scheduled with
\* delay RETRY_DELAY * RETRY_BACKOFF_MULTIPLIER^(k-1), and a segment is
\* submitted at most maxRetries + 1 times.
C7_BackoffLaw ==
    /\ \A i \in 1 .. Len(timers) :
          timers[i].cause = "send_failed" =>
          /\ timers[i].k \in 1 .. maxRetries
          /\ timers[i].delay = RETRY_DELAY * Pow(RETRY_BACKOFF_MULTIPLIER, timers[i].k - 1)
    /\ \A r \in requests : r.attempt <= maxRetries

\* --------------------------------------------------------------------- C8
\* segment s of session sid still has a request in flight or a retry scheduled
Carried(reqs, tms, s, sid) ==
    \/ \E r \in reqs : r.seg = s /\ r.sessionId = sid
    \/ \E i \in 1 .. Len(tms) : tms[i].seg = s /\ tms[i].session = sid

\* number of callback invocations for segment s
Reports(log, s) == Cardinality({i \in 1 .. Len(log) : log[i].seg = s})

\* C8: in a session that is not stopped, a flushed segment is reported to the
\* callback when its last attempt settles, and never more than once: it is
\* never left without a request in flight, a scheduled retry or a report.
C8_OneCallbackPerSegment ==
    [][ \A s \in 1 .. nextReq :
          /\ Reports(cbLog', s) <= 1
          /\ (/\ isProcessing /\ isProcessing' /\ sessionId' = sessionId
              /\ Carried(requests, timers, s, sessionId)
              /\ ~Carried(requests', timers', s, sessionId))
             => Reports(cbLog', s) = 1
      ]_vars

\* --------------------------------------------------------------------- C9
\* C9: once a session is stopped, no request is issued for it and its
\* callback is not invoked: requests are issued and callbacks invoked only
\* while the service is processing, for the session that is then current.
C9_NothingAfterStop ==
    [][ /\ \A r \in NewRequests :
              /\ isProcessing
              /\ isProcessing'
              /\ sessionId # NoSession
              /\ r.sessionId = sessionId
        /\ cbLog' # cbLog =>
              /\ isProcessing
              /\ onDataCallback # NoSession
              /\ Len(cbLog') = Len(cbLog) + 1
              /\ cbLog'[Len(cbLog')].cb = onDataCallback
      ]_vars

\* three failures, the third retry scheduled, then stopProcessing(), then the
\* timer fired: nothing was sent and nothing was reported
C9_StoppedMidRetry ==
    /\ ~isProcessing
    /\ epoch = 1
    /\ lastEvent.op = "timer"
    /\ retryCount = maxRetries
    /\ failedBuffer # null
    /\ failedBuffer # Ref(EmptyPair)
    /\ nextReq = maxRetries
    /\ requests = {}
    /\ timers = <<>>
    /\ cbLog = <<>>

\* -------------------------------------------------------------------- C10
\* C10: after stopProcessing(), the settling of a request and the firing of a
\* retry timer change no state of the service and schedule no timer.
C10_StoppedServiceIsInert ==
    [][ (~isProcessing /\ lastEvent'.op \in {"succeed", "fail", "timer"}) =>
          /\ UNCHANGED <<audioBuffer, sendingBuffer, isSending, retryCount, failedBuffer>>
          /\ Len(timers') <= Len(timers)
      ]_vars

\* -------------------------------------------------------------------- C11
\* C11: stopProcessing() completes in every state; it leaves isProcessing
\* false, both buffer pairs empty, _isSending false and the session id and
\* the callback null, and a second call changes nothing.
C11_StopResetsAndIsIdempotent ==
    [][ lastEvent'.op = "stop" =>
          /\ ~isProcessing'
          /\ audioBuffer' = EmptyPair
          /\ sendingBuffer' = EmptyPair
          /\ ~isSending'
          /\ sessionId' = NoSession
          /\ onDataCallback' = NoSession
          /\ lastEvent.op = "stop" => UNCHANGED <<svc, requests, timers>>
      ]_vars

\* stopProcessing() has just run while a retry was scheduled and a request of
\* a newer segment was in flight
C11_StoppedWithRetryAndRequest ==
    /\ lastEvent.op = "stop"
    /\ failedBuffer # null
    /\ retryCount > 0
    /\ timers # <<>>
    /\ requests # {}

\* -------------------------------------------------------------------- C12
\* C12: within a session, every frame of a newly issued request was appended
\* after every frame of every request issued earlier for a different segment
\* of the session; hence no frame is issued in two different segments.
C12_ChronologicalOrder ==
    [][ \A r \in NewRequests :
          \A e \in submitted :
              (e.session = r.sessionId /\ e.seg # r.seg) =>
                  \A f \in PartFrames(r.client_audio) \cup PartFrames(r.commercial_audio) :
                      \A g \in e.frames : g < f
      ]_vars

\* a retry of an older segment was issued, with audio, after a newer segment
\* of the same session had been issued with audio
C12_RetryAfterNewerSegment ==
    \E e1, e2 \in submitted :
        /\ e1.session = e2.session
        /\ e1.id < e2.id
        /\ e1.seg > e2.seg
        /\ e1.frames # {}
        /\ e2.frames # {}

\* -------------------------------------------------------------------- C13
\* the active buffer after the next block, were it to arrive now
WithNextBlock ==
    Evict(AppendBlock(audioBuffer, ChannelData(nextFrame), ChannelData(nextFrame)))

\* the frames of the block handled by the step end the pair that received it
BlockAppended ==
    /\ SliceLast(AfterBlock.client, BUFFER_SIZE) = ChannelData(nextFrame)
    /\ SliceLast(AfterBlock.commercial, BUFFER_SIZE) = ChannelData(nextFrame)

\* C13: a failed request, the last allowed retry included, leaves
\* isProcessing and the active buffer as they were; a block handled while a
\* retry is scheduled or after a failure is appended in full; and after a
\* permanent failure a send decision on the next block starts a send.
C13_FailureKeepsSessionRunning ==
    [][ /\ lastEvent'.op = "fail" =>
              /\ UNCHANGED <<isProcessing, audioBuffer>>
              /\ ~CanRetry(retryCount) =>
                    /\ ~isSending'
                    /\ (isProcessing' /\ vadEnabled') => VadTrigger(TRUE, WithNextBlock)'
        /\ (lastEvent'.op = "block" /\ (failedBuffer # null \/ lastEvent.op = "fail")) =>
              BlockAppended
      ]_vars

\* all retries of a segment failed, the error was reported, and a block that
\* arrived afterwards is in the active buffer of the running session
C13_BlockAfterPermanentFailure ==
    /\ isProcessing
    /\ lastEvent.op = "block"
    /\ nextReq = maxRetries + 1
    /\ requests = {}
    /\ retryCount = 0
    /\ \E i \in 1 .. Len(cbLog) : cbLog[i].kind = "error"
    /\ Len(audioBuffer.client) >= BUFFER_SIZE

\* -------------------------------------------------------------------- C14
\* the step runs the callback of a retry timer set in another session
StaleTimerFires ==
    /\ lastEvent'.op = "timer"
    /\ \E i \in 1 .. Len(timers) :
          timers' = RemoveAt(timers, i) /\ timers[i].session # sessionId

\* the step settles a request issued in another session
StaleResponseSettles ==
    /\ lastEvent'.op \in {"succeed", "fail"}
    /\ \E r \in requests \ requests' : r.sessionId # sessionId

\* C14: a session started after stopProcessing() begins with retry counter 0
\* and no stored failed buffer, and in a running session a retry timer or a
\* response of an earlier session causes no send, no state change and no
\* callback.
C14_SessionsIndependent ==
    [][ /\ lastEvent'.op = "start" => (retryCount' = 0 /\ failedBuffer' = null)
        /\ (isProcessing /\ (StaleTimerFires \/ StaleResponseSettles)) =>
              /\ UNCHANGED svc
              /\ NewRequests = {}
              /\ cbLog' = cbLog
              /\ Len(timers') <= Len(timers)
      ]_vars

\* -------------------------------------------------------------------- C15
\* C15: two detectors that start in the same state and are fed the same
\* sequence of block RMS values and block durations return the same decision
\* and reason at every block, whatever their clocks read.
C15_SameBlocksSameDecisions ==
    vadResult = vadResult2

\* -------------------------------------------------------------------- C16
\* the step is an analyze() call
AnalyzeCall == vadCalls' = vadCalls + 1

\* C16: while no block since the latest reset has been classified as speech,
\* analyze() answers waiting_for_speech as long as the block durations since
\* that reset sum to less than MAX_WAIT_TIME, and answers timeout_no_speech
\* on the first block at which the sum reaches it; the window then restarts
\* from zero.
C16_TimeoutWithoutSpeech ==
    [][ (AnalyzeCall /\ ~spokenInWindow /\ ~IsSpeechNow(vadSeen'.energyHistory)) =>
          /\ windowMs < MAX_WAIT_TIME
          /\ vadResult' = IF windowMs + blockMs >= MAX_WAIT_TIME
                          THEN Decision(TRUE, "timeout_no_speech")
                          ELSE Decision(FALSE, "waiting_for_speech")
          /\ vadResult'.shouldSend =>
                (windowMs' = 0 /\ vad'.totalAccumulatedTime = 0)
      ]_vars

\* the timeout has just fired on blocks that were never speech
C16_TimeoutFired ==
    /\ vadResult = Decision(TRUE, "timeout_no_speech")
    /\ vadSeen.totalAccumulatedTime >= MAX_WAIT_TIME
    /\ vadSeen.speechStartTime = null
    /\ vad.totalAccumulatedTime = 0

\* -------------------------------------------------------------------- C17
\* C17: a fresh detector is fed loud blocks (RMS 0.05) for at least 1.0 s and
\* then quiet blocks (RMS 0.001), each call one block duration after the
\* last; analyze() answers end_of_speech on the first quiet block at which
\* the quiet blocks sum to SILENCE_BEFORE_SEND, and on no other block.
C17_EndOfSpeechAfterSilence ==
    [][ (/\ AnalyzeCall
         /\ realTime'
         /\ shape' = "silence"
         /\ speechMs' >= MIN_PHRASE_LENGTH) =>
          ((vadResult'.reason = "end_of_speech") <=>
              (silenceMs < SILENCE_BEFORE_SEND /\ silenceMs' >= SILENCE_BEFORE_SEND))
      ]_vars

\* -------------------------------------------------------------------- C18
\* C18: when the decision is taken with silenceDuration >= SILENCE_BEFORE_SEND
\* it is speech_too_short if speechDuration < 0.5 s, otherwise
\* short_phrase_waiting if speechDuration < 1.0 s and speechDuration +
\* silenceDuration < 2.5 s, otherwise end_of_speech (send).
C18_DecisionAfterSilence ==
    [][ (AnalyzeCall /\ vadSeen'.silenceDuration >= SILENCE_BEFORE_SEND) =>
          vadResult' =
              IF vadSeen'.speechDuration < MIN_SPEECH_DURATION
              THEN Decision(FALSE, "speech_too_short")
              ELSE IF /\ vadSeen'.speechDuration < MIN_PHRASE_LENGTH
                      /\ vadSeen'.speechDuration + vadSeen'.silenceDuration
                             < MIN_PHRASE_LENGTH + SHORT_PHRASE_EXTENSION
              THEN Decision(FALSE, "short_phrase_waiting")
              ELSE Decision(TRUE, "end_of_speech")
      ]_vars

\* a phrase shorter than MIN_PHRASE_LENGTH was sent as end_of_speech once
\* speech plus silence had reached 2.5 s
C18_ShortPhraseSentAfterExtension ==
    /\ vadResult = Decision(TRUE, "end_of_speech")
    /\ vadSeen.speechDuration >= MIN_SPEECH_DURATION
    /\ vadSeen.speechDuration < MIN_PHRASE_LENGTH
    /\ vadSeen.silenceDuration >= SILENCE_BEFORE_SEND
    /\ vadSeen.speechDuration + vadSeen.silenceDuration
          >= MIN_PHRASE_LENGTH + SHORT_PHRASE_EXTENSION

\* -------------------------------------------------------------------- C19
\* the step ends call c with an error after its microphone was acquired
FailsAfterMicrophone(c) ==
    /\ calls[c].pc = "display"
    /\ calls'[c].pc = "done"
    /\ calls'[c].result # "ok"

\* C19: a call requests display capture only after its microphone request
\* succeeded, and when a call fails after that (display capture rejected, or
\* validation failed) every stream the call acquired is stopped, micStream
\* and displayStream are null and isCapturing is false when the error is
\* thrown to the caller.
C19_MicrophoneFirstAndRollback ==
    [][ /\ \A i \in 1 .. Len(streams') :
              streams'[i].kind = "display" =>
                  \E j \in 1 .. (i - 1) :
                      streams'[j].kind = "mic" /\ streams'[j].by = streams'[i].by
        /\ \A c \in 1 .. Len(calls) :
              FailsAfterMicrophone(c) =>
                  /\ micStream' = null
                  /\ displayStream' = null
                  /\ ~isCapturing'
                  /\ \A i \in 1 .. Len(streams') :
                        streams'[i].by = c => streams'[i].stopped
      ]_vars

\* -------------------------------------------------------------------- C20
\* the stream that the latest step received
Received == streams'[Len(streams')]

\* C20: when getDisplayMedia() resolves with a stream without audio track the
\* call fails with NoAudioTrackError and leaves isCapturing false; isCapturing
\* becomes true only when a display stream with an audio track is received.
C20_NoAudioTrackIsDistinctError ==
    [][ /\ (capEvent'.op = "display_resolved" /\ Received.audioTracks = 0) =>
              /\ calls'[capEvent'.call].result = "NoAudioTrackError"
              /\ ~isCapturing'
        /\ (isCapturing' /\ ~isCapturing) =>
              /\ capEvent'.op = "display_resolved"
              /\ Received.audioTracks > 0
      ]_vars

\* a call has just failed on a display stream that has only a video track:
\* that stream and the microphone of the call are stopped
C20_RejectedSilentDisplay ==
    /\ capEvent.op = "display_resolved"
    /\ calls[capEvent.call].result = "NoAudioTrackError"
    /\ streams[Len(streams)].kind = "display"
    /\ streams[Len(streams)].audioTracks = 0
    /\ \A i \in 1 .. Len(streams) : streams[i].by = capEvent.call => streams[i].stopped
    /\ ~isCapturing

\* -------------------------------------------------------------------- C21
\* C21: when stopCapture() has returned, every stream that the service has
\* acquired is stopped, whatever startCapture() and stopCapture() calls
\* came before.
C21_StopLeavesNoLiveTrack ==
    capEvent.op = "stop" => \A i \in 1 .. Len(streams) : streams[i].stopped

\* -------------------------------------------------------------------- C22
\* C22: stopCapture() called on a service that never started a capture, or
\* right after another stopCapture(), returns normally, stops no track and
\* leaves micStream and displayStream null and isCapturing false.
C22_StopIsIdempotent ==
    [][ (capEvent'.op = "stop" /\ (calls = <<>> \/ capEvent.op = "stop")) =>
          /\ streams' = streams
          /\ micStream' = null
          /\ displayStream' = null
          /\ ~isCapturing'
      ]_vars

\* stopCapture() has run twice in a row after a capture that had succeeded
C22_StoppedTwiceAfterCapture ==
    /\ capEvent.op = "stop"
    /\ capEvent.again
    /\ \E c \in 1 .. Len(calls) : calls[c].result = "ok"
    /\ \A i \in 1 .. Len(streams) : streams[i].stopped

\* -------------------------------------------------------------------- C23
\* C23: a running service has its audio context and its processor, so no
\* block is skipped, and every block it handles goes in full, after the
\* frames already there, to the end of both channels of the active buffer
\* (the pair that the handler may then swap out), whether or not a request is
\* outstanding or a retry is scheduled.
C23_AppendNeverSkipped ==
    [][ /\ isProcessing' => (audioContext' /\ processor')
        /\ lastEvent'.op = "block" =>
              /\ AfterBlock.client =
                    SliceLast(audioBuffer.client \o ChannelData(nextFrame), MAX_BUFFER_SIZE)
              /\ AfterBlock.commercial =
                    SliceLast(audioBuffer.commercial \o ChannelData(nextFrame), MAX_BUFFER_SIZE)
              /\ nextFrame' = nextFrame + BUFFER_SIZE
      ]_vars

\* a block has just been appended while the retry of a failed segment was
\* outstanding
C23_AppendedDuringRetry ==
    /\ lastEvent.op = "block"
    /\ isSending
    /\ failedBuffer # null
    /\ \E r \in requests : r.attempt > 0
    /\ SliceLast(audioBuffer.client, BUFFER_SIZE) = ChannelData(nextFrame - BUFFER_SIZE)
    /\ SliceLast(audioBuffer.commercial, BUFFER_SIZE) = ChannelData(nextFrame - BUFFER_SIZE)

\* -------------------------------------------------------------------- C24
\* C24: when analyze() classifies the block as speech, the state it takes
\* its decision on has silenceDuration zero and lastSpeechTime equal to the
\* time of the call, whatever the state of the detector before the call.
C24_SpeechResetsSilence ==
    [][ (AnalyzeCall /\ IsSpeechNow(vadSeen'.energyHistory)) =>
          /\ vadSeen'.silenceDuration = 0
          /\ vadSeen'.lastSpeechTime = Ref(vadNow')
      ]_vars

\* -------------------------------------------------------------------- C25
\* C25: the block durations since the latest reset never sum to more than
\* MAX_WAIT_TIME: analyze() answers shouldSend = true on the block at which
\* the sum reaches MAX_WAIT_TIME, whatever the state of the detector.
C25_WindowBoundedByMaxWait ==
    [][ (AnalyzeCall /\ windowMs + blockMs >= MAX_WAIT_TIME) => vadResult'.shouldSend ]_vars

\* -------------------------------------------------------------------- C26
\* the step settles, with an ok response and a JSON body, a request of the
\* running session
SuccessOfSession ==
    /\ lastEvent'.op = "succeed"
    /\ isProcessing
    /\ \E r \in requests \ requests' : r.sessionId = sessionId

\* C26: when a request of the running session gets an ok response with a JSON
\* body, the callback is invoked once with the body, the retry counter is 0
\* afterwards and no retry is scheduled, also when the callback raises an
\* exception.
C26_SuccessReportedOnceNoRetry ==
    [][ SuccessOfSession =>
          /\ Len(cbLog') = Len(cbLog) + 1
          /\ cbLog'[Len(cbLog')].kind = "data"
          /\ \E r \in requests \ requests' : cbLog'[Len(cbLog')].req = r.id
          /\ retryCount' = 0
          /\ timers' = timers
      ]_vars

\* -------------------------------------------------------------------- C27
\* speechStartTime and lastSpeechTime are set exactly when isSpeaking is true
TimesFollowSpeaking(v) ==
    /\ (v.speechStartTime # null) <=> v.isSpeaking
    /\ (v.lastSpeechTime # null) <=> v.isSpeaking

\* C27: in the state a decision is taken on and in the state analyze() and
\* hardReset() leave, speechStartTime and lastSpeechTime are non-null exactly
\* when isSpeaking is true; speech onset sets the three in the same call, and
\* a send decision and hardReset() clear the three.
C27_SpeechFieldsTogether ==
    [][ /\ TimesFollowSpeaking(vad')
        /\ TimesFollowSpeaking(vadSeen')
        /\ (AnalyzeCall /\ ~vad.isSpeaking /\ vadSeen'.isSpeaking) =>
              /\ vadSeen'.speechStartTime = Ref(vadNow')
              /\ vadSeen'.lastSpeechTime = Ref(vadNow')
        /\ (AnalyzeCall /\ vadResult'.shouldSend) => ~vad'.isSpeaking
        /\ (~AnalyzeCall /\ vad' # vad) => ~vad'.isSpeaking
      ]_vars

\* a send decision has just been taken on a speaking detector and has
\* cleared the three fields
C27_ClearedBySend ==
    /\ vadResult.shouldSend
    /\ vadSeen.isSpeaking
    /\ vadSeen.speechStartTime # null
    /\ vadSeen.lastSpeechTime # null
    /\ ~vad.isSpeaking
    /\ vad.speechStartTime = null
    /\ vad.lastSpeechTime = null

\* -------------------------------------------------------------------- C28
\* C28: analyze() never answers natural_pause.
C28_NaturalPauseNeverReturned ==
    vadResult.reason # "natural_pause"

\* a decision was taken in a silence after speech of at least
\* MIN_SPEECH_DURATION that was shorter than NATURAL_PAUSE_THRESHOLD
C28_PauseShorterThanThreshold ==
    /\ vadSeen.isSpeaking
    /\ vadSeen.speechDuration >= MIN_SPEECH_DURATION
    /\ vadSeen.silenceDuration > 0
    /\ vadSeen.silenceDuration < NATURAL_PAUSE_THRESHOLD
    /\ ~IsSpeechNow(vadSeen.energyHistory)
    /\ vadResult = Decision(FALSE, "speech_in_progress")

\* -------------------------------------------------------------------- C29
\* C29: analyze() answers end_of_speech only on a block that it does not
\* classify as speech.
C29_NoEndOfSpeechOnSpeech ==
    vadResult.reason = "end_of_speech" => ~IsSpeechNow(vadSeen.energyHistory)

====
